---- MODULE Spec2Model ----
(***************************************************************************)
(* Model of the clandom front-end.                                         *)
(*                                                                         *)
(*  - ContainerAwareText: the auto-fit text component (measureAndAdjust,   *)
(*    debounce, the useEffect that wires the triggers and its cleanup).    *)
(*  - App / DrawPage: the tab container, the slider and spinner handlers   *)
(*    and the asynchronous handleDraw.                                     *)
(*                                                                         *)
(* Pixel extents and font sizes are integers; scaleRatio and every         *)
(* intermediate size are exact fractions [num, den] with den > 0.          *)
(* Time is abstracted: a pending timer may fire at any later step.         *)
(***************************************************************************)
EXTENDS Integers, Sequences, FiniteSets

VARIABLES
    \* ---- ContainerAwareText ----
    mounted,         \* the component instance exists (textRef.current is set)
    props,           \* props of the latest render
    fontSize,        \* useState(minFontSize)
    parentElement,   \* useState(null): TRUE once a container has been stored
    timeout,         \* the current debounce instance holds a pending timer
    stale,           \* pending timers of debounce instances whose effect was cleaned up
    observer,        \* MutationObserver connected
    resizeObserver,  \* ResizeObserver connected to the container
    windowListener,  \* window 'resize' listener attached
    textMetrics,     \* the box the probe has at maxFontSize for the rendered text
    lastPass,        \* record of the latest call of measureAndAdjust
    \* ---- App / DrawPage ----
    value,           \* selected tab of Context
    rowNum, colNum, alignment, result, loading, error, idRange,
    pendingInvoke,   \* backend call awaited by the mounted DrawPage
    orphanInvokes    \* backend calls awaited by DrawPage instances that were unmounted

textVars == <<mounted, props, fontSize, parentElement, timeout, stale,
              observer, resizeObserver, windowListener, textMetrics, lastPass>>
drawVars == <<value, rowNum, colNum, alignment, result, loading, error, idRange,
              pendingInvoke, orphanInvokes>>
vars == <<textVars, drawVars>>

----------------------------------------------------------------------------
(* Bounds of the model *)

MaxFont == 3        \* the maxFontSize tried above minFontSize
MaxScaleNum == 2    \* scaleRatio ranges over 0/2 .. MaxScaleNum/2
MaxWidth == 2       \* largest measured / container width
MaxHeight == 1      \* largest measured / container height
MaxStale == 1       \* pending superseded timers kept at once
IdEdge == 1         \* slider values tried: within IdEdge of either end
SpinEdge == 1       \* spinner values tried: within SpinEdge of either end
MaxRes == 11        \* largest value returned by the backend
MaxOrphans == 1     \* backend calls of unmounted pages kept at once

----------------------------------------------------------------------------
(* Exact fractions *)

Frac(n, d) == [num |-> n, den |-> d]
OfInt(n) == Frac(n, 1)
FracLess(a, b) == a.num * b.den < b.num * a.den

\* Math.min / Math.max on two numbers
MathMin(a, b) == IF FracLess(b, a) THEN b ELSE a
MathMax(a, b) == IF FracLess(a, b) THEN b ELSE a

\* Math.round: the nearest integer, ties towards +infinity
MathRound(x) == (2 * x.num + x.den) \div (2 * x.den)

----------------------------------------------------------------------------
(* ContainerAwareText: pure parts *)

Whitespace == {" ", "\t", "\n"}

RECURSIVE TrimStart(_)
TrimStart(s) ==
    IF s # <<>> /\ Head(s) \in Whitespace THEN TrimStart(Tail(s)) ELSE s

RECURSIVE TrimEnd(_)
TrimEnd(s) ==
    IF s # <<>> /\ s[Len(s)] \in Whitespace
    THEN TrimEnd(SubSeq(s, 1, Len(s) - 1)) ELSE s

\* String.prototype.trim on a sequence of characters
Trim(s) == TrimEnd(TrimStart(s))

ShouldSkip_noTrim(c, ref) == ~c.enabled \/ ~ref \/ c.textContent = <<>>

\* line 74: if (!enabled || !textRef.current || !textContent.trim()) return;
ShouldSkip(c, ref) == ~c.enabled \/ ~ref \/ Trim(c.textContent) = <<>>

Scale_fromCurrent(c, parentExtent, textExtent) ==
    Frac(fontSize * c.scaleRatio.num * parentExtent, c.scaleRatio.den * textExtent)

\* maxFontSize * (scaleRatio / (textExtent / parentExtent))
Scale(c, parentExtent, textExtent) ==
    Frac(c.maxFontSize * c.scaleRatio.num * parentExtent, c.scaleRatio.den * textExtent)

\* lines 120-130
WidthStep(c, tm, pr, calculatedSize) ==
    IF c.fitMode \in {"width", "both"} /\ tm.width > 0 /\ pr.width > 0
    THEN Scale(c, pr.width, tm.width)
    ELSE calculatedSize

HeightStep_overwrite(c, tm, pr, calculatedSize) ==
    IF c.fitMode \in {"height", "both"} /\ tm.height > 0 /\ pr.height > 0
    THEN Scale(c, pr.height, tm.height)
    ELSE calculatedSize

\* lines 132-140
HeightStep(c, tm, pr, calculatedSize) ==
    IF c.fitMode \in {"height", "both"} /\ tm.height > 0 /\ pr.height > 0
    THEN MathMin(calculatedSize, Scale(c, pr.height, tm.height))
    ELSE calculatedSize

\* lines 118-140: let calculatedSize = maxFontSize; width axis; height axis
CalculatedSize(c, tm, pr) ==
    HeightStep(c, tm, pr, WidthStep(c, tm, pr, OfInt(c.maxFontSize)))

Clamp_noLowerBound(c, x) == MathMin(OfInt(c.maxFontSize), x)

\* line 143: Math.max(minFontSize, Math.min(maxFontSize, calculatedSize))
Clamp(c, x) == MathMax(OfInt(c.minFontSize), MathMin(OfInt(c.maxFontSize), x))

\* line 146: the argument of setFontSize
ResolvedSize(c, tm, pr) == MathRound(Clamp(c, CalculatedSize(c, tm, pr)))

----------------------------------------------------------------------------
(* ContainerAwareText: inputs *)

Rect(w, h) == [width |-> w, height |-> h]
ZeroRect == Rect(0, 0)
Rects == {Rect(w, h) : w \in 0..MaxWidth, h \in 0..MaxHeight}

FitModes == {"width", "height", "both"}
ScaleRatios == {Frac(n, 2) : n \in 0..MaxScaleNum}
Selectors == {"none", ".box"}

MakeProps(mn, mx, sr, sel, en, txt, fm) ==
    [minFontSize |-> mn, maxFontSize |-> mx, scaleRatio |-> sr,
     parentSelector |-> sel, enabled |-> en, textContent |-> txt, fitMode |-> fm]

\* configurations tried by the sizing specification (fixed for a behaviour)
MeasureProps ==
    {MakeProps(b[1], b[2], sr, "none", en, txt, fm) :
        b \in {x \in (1..2) \X (1..MaxFont) : x[1] <= x[2]}, sr \in ScaleRatios,
        en \in BOOLEAN, txt \in {<<>>, <<" ">>, <<" ", "B">>}, fm \in FitModes}

\* configurations tried by the lifecycle specification: the default fitMode,
\* and everything that re-runs the effect varies
LifecycleProps ==
    {MakeProps(1, MaxFont, Frac(1, 2), sel, en, txt, "width") :
        sel \in Selectors, en \in BOOLEAN, txt \in {<<"A">>, <<" ", "B">>}}
LifecycleRects == {Rect(0, 1), Rect(1, 1)}

\* the probe's box in the lifecycle specification: one unit per character
LifecycleBox(txt) == Rect(Len(txt), 1)

NoPass(p) ==
    [n |-> 0, ran |-> FALSE, c |-> p, ref |-> FALSE, parent |-> FALSE,
     pr |-> ZeroRect, completed |-> FALSE, repeat |-> FALSE, afterAbort |-> FALSE]

----------------------------------------------------------------------------
(* ContainerAwareText: measureAndAdjust (lines 73-147) *)

\* c: the props captured by the closure; ref: textRef.current is set;
\* parent: the container lookup (closest(parentSelector) or parentElement)
\* returns an element; tm, pr: the bounding boxes of the probe and of the
\* container.  With ref null the function returns before any setState, so a
\* timer of an unmounted instance changes nothing.
\* lastPass records the call: n alternates, repeat tells that the previous
\* call completed with the same inputs, afterAbort that an earlier call
\* returned early.
measureAndAdjust(c, ref, parent, tm, pr) ==
    LET done == ~ShouldSkip(c, ref) /\ parent
        same == lastPass.completed /\ lastPass.c = c /\ lastPass.pr = pr
    IN  /\ fontSize' = IF done THEN ResolvedSize(c, tm, pr) ELSE fontSize
        /\ parentElement' = IF done THEN TRUE ELSE parentElement
        /\ lastPass' =
             [n |-> 1 - lastPass.n, ran |-> TRUE, c |-> c, ref |-> ref,
              parent |-> parent,
              pr |-> IF done THEN pr ELSE ZeroRect,
              completed |-> done,
              repeat |-> done /\ same,
              afterAbort |-> \/ lastPass.afterAbort
                             \/ (lastPass.ran /\ ~lastPass.completed)]

----------------------------------------------------------------------------
(* ContainerAwareText: debounce and the effect (lines 29-38, 149-195) *)

\* The timers that are pending: the one of the current debounce instance and
\* those of the instances whose effect has been cleaned up.  A timer is the
\* closure it will call: c, the props measureAndAdjust captured, and live,
\* whether the instance it belongs to is still mounted.
PendingTimers == stale \cup (IF timeout THEN {[c |-> props, live |-> TRUE]} ELSE {})

\* lines 188-194: the cleanup disconnects the observers and removes the
\* listener; it holds no reference to the debounce timer, which stays pending.
AfterCleanup(live) ==
    {[c |-> t.c, live |-> t.live /\ live] : t \in PendingTimers}

\* lines 149-186 for props p: parentFound is the container lookup of lines 173-177
EffectSetup(p, parentFound) ==
    /\ timeout' = p.enabled
    /\ observer' = p.enabled
    /\ resizeObserver' = (p.enabled /\ parentFound)
    /\ windowListener' = p.enabled

\* debouncedMeasure(): clearTimeout(timeout); timeout = setTimeout(...)
debounce ==
    /\ timeout' = TRUE
    /\ UNCHANGED <<mounted, props, fontSize, parentElement, stale, observer,
                   resizeObserver, windowListener, textMetrics, lastPass>>
    /\ UNCHANGED drawVars

\* MutationObserver callback
MutationObserved == mounted /\ observer /\ debounce

\* ResizeObserver callback
ContainerResized == mounted /\ resizeObserver /\ debounce

\* window 'resize' listener
WindowResized == mounted /\ windowListener /\ debounce

\* the timer of the current debounce instance expires
TimerFires(parent, pr) ==
    /\ mounted /\ timeout
    /\ timeout' = FALSE
    /\ measureAndAdjust(props, TRUE, parent, textMetrics, pr)
    /\ UNCHANGED <<mounted, props, stale, observer, resizeObserver,
                   windowListener, textMetrics>>
    /\ UNCHANGED drawVars

\* a timer left behind by a cleaned-up effect expires; its probe renders the
\* text its closure captured, with box tm
StaleTimerFires(t, parent, tm, pr) ==
    /\ t \in stale
    /\ stale' = stale \ {t}
    /\ measureAndAdjust(t.c, t.live, parent, tm, pr)
    /\ UNCHANGED <<mounted, props, timeout, observer, resizeObserver,
                   windowListener, textMetrics>>
    /\ UNCHANGED drawVars

\* a render with props that differ in a dependency of the effect:
\* cleanup of the previous effect, then the effect for the new props;
\* tm is the box of the probe for the new text
Rerender(p, parentFound, tm) ==
    /\ mounted /\ p # props
    /\ p.minFontSize = props.minFontSize /\ p.maxFontSize = props.maxFontSize
    /\ Cardinality(AfterCleanup(TRUE)) <= MaxStale
    /\ props' = p
    /\ stale' = AfterCleanup(TRUE)
    /\ EffectSetup(p, parentFound)
    /\ textMetrics' = tm
    /\ UNCHANGED <<mounted, fontSize, parentElement, lastPass>>
    /\ UNCHANGED drawVars

\* the component is removed: cleanup, textRef.current becomes null
Unmount ==
    /\ mounted
    /\ Cardinality(AfterCleanup(FALSE)) <= MaxStale
    /\ mounted' = FALSE
    /\ stale' = AfterCleanup(FALSE)
    /\ timeout' = FALSE /\ observer' = FALSE
    /\ resizeObserver' = FALSE /\ windowListener' = FALSE
    /\ UNCHANGED <<props, fontSize, parentElement, textMetrics, lastPass>>
    /\ UNCHANGED drawVars

\* a new instance: useState(minFontSize), useState(null), then the effect
Mount(p, parentFound, tm) ==
    /\ ~mounted
    /\ mounted' = TRUE
    /\ props' = p
    /\ fontSize' = p.minFontSize
    /\ parentElement' = FALSE
    /\ EffectSetup(p, parentFound)
    /\ textMetrics' = tm
    /\ UNCHANGED <<stale, lastPass>>
    /\ UNCHANGED drawVars

\* the state after the first render and effect of an instance with props p
TextMounted(p, parentFound, tm) ==
    /\ mounted = TRUE
    /\ props = p
    /\ fontSize = p.minFontSize
    /\ parentElement = FALSE
    /\ timeout = p.enabled
    /\ stale = {}
    /\ observer = p.enabled
    /\ resizeObserver = (p.enabled /\ parentFound)
    /\ windowListener = p.enabled
    /\ textMetrics = tm
    /\ lastPass = NoPass(p)

----------------------------------------------------------------------------
(* DrawPage (src/Pages/DrawPage.tsx) *)

\* a value of type T | null: <<>> is null, <<x>> is x
Null == <<>>
Some(x) == <<x>>

minDistance == 5
maxId == 190

\* the texts of the page, in English
Waiting == "waiting for a draw..."
DrawFailed == "draw failed"
ErrorPrefix == "error: "

Digit(n) == <<"0", "1", "2", "3", "4", "5", "6", "7", "8", "9">>[n + 1]

\* `${res}` for a non-negative integer
RECURSIVE ToString(_)
ToString(n) == IF n < 10 THEN Digit(n) ELSE ToString(n \div 10) \o Digit(n % 10)

\* lines 192-202
calculateIdValue(v) ==
    IF 1 <= v /\ v <= 100 THEN v
    ELSE IF v > 100 THEN 100 + (v - 100) * 10
    ELSE 1

NoInvoke == [cmd |-> "none", a |-> 0, b |-> 0]

\* useState initial values, lines 49-55
DrawPageInitial ==
    /\ rowNum = 6 /\ colNum = 8 /\ alignment = Some("idMode")
    /\ result = Waiting /\ loading = FALSE /\ error = Null
    /\ idRange = <<20, 37>>

DrawPageReset ==
    /\ rowNum' = 6 /\ colNum' = 8 /\ alignment' = Some("idMode")
    /\ result' = Waiting /\ loading' = FALSE /\ error' = Null
    /\ idRange' = <<20, 37>>

\* values the Slider (min 1, max maxId) can report: those near either end
SliderValues == {v \in 1..maxId : v <= 1 + IdEdge \/ v >= maxId - IdEdge}
SliderPairs == {<<a, b>> \in SliderValues \X SliderValues : a <= b}

\* values the NumberSpinners (min 1, max 100) can report, or null
SpinnerValues ==
    {Some(v) : v \in {w \in 1..100 : w <= 1 + SpinEdge \/ w >= 100 - SpinEdge}}
        \cup {Null}

BackendValues == {7, MaxRes}
BackendErrors == {"invoke is undefined"}

\* lines 57-69; newValue[1], newValue[2] are newValue[0], newValue[1] of the source
handleIdRange(newValue, activeThumb) ==
    /\ value = 0 /\ alignment = Some("idMode")
    /\ idRange' =
         IF newValue[2] - newValue[1] < minDistance
         THEN IF activeThumb = 0
              THEN LET clamped == IF newValue[1] < maxId - minDistance
                                  THEN newValue[1] ELSE maxId - minDistance
                   IN  <<clamped, clamped + minDistance>>
              ELSE LET clamped == IF newValue[2] > minDistance
                                  THEN newValue[2] ELSE minDistance
                   IN  <<clamped - minDistance, clamped>>
         ELSE newValue
    /\ UNCHANGED <<value, rowNum, colNum, alignment, result, loading, error,
                   pendingInvoke, orphanInvokes>>
    /\ UNCHANGED textVars

\* lines 71-78
handleRowNum(v) ==
    /\ value = 0 /\ alignment # Some("idMode")
    /\ IF v # Null
       THEN /\ rowNum' = v[1]
            /\ colNum' = IF colNum <= v[1] THEN v[1] + 1 ELSE colNum
       ELSE UNCHANGED <<rowNum, colNum>>
    /\ UNCHANGED <<value, alignment, result, loading, error, idRange,
                   pendingInvoke, orphanInvokes>>
    /\ UNCHANGED textVars

\* lines 80-84
handleColNum(v) ==
    /\ value = 0 /\ alignment # Some("idMode")
    /\ colNum' = IF v # Null THEN v[1] ELSE colNum
    /\ UNCHANGED <<value, rowNum, alignment, result, loading, error, idRange,
                   pendingInvoke, orphanInvokes>>
    /\ UNCHANGED textVars

\* lines 86-91; the exclusive ToggleButtonGroup reports the button clicked, or
\* null when the selected button is clicked again
handleAlignment(clicked) ==
    /\ value = 0
    /\ alignment' = IF alignment = Some(clicked) THEN Null ELSE Some(clicked)
    /\ UNCHANGED <<value, rowNum, colNum, result, loading, error, idRange,
                   pendingInvoke, orphanInvokes>>
    /\ UNCHANGED textVars

\* lines 93-110, up to the await; the button is disabled while loading (line 157)
handleDraw ==
    /\ value = 0 /\ ~loading
    /\ loading' = TRUE
    /\ error' = Null
    /\ pendingInvoke' =
         IF alignment = Some("idMode")
         THEN [cmd |-> "draw_id", a |-> calculateIdValue(idRange[1]),
               b |-> calculateIdValue(idRange[2])]
         ELSE [cmd |-> "draw_plane", a |-> rowNum, b |-> colNum]
    /\ UNCHANGED <<value, rowNum, colNum, alignment, result, idRange, orphanInvokes>>
    /\ UNCHANGED textVars

\* lines 111, 123-125: the invoke of the mounted page resolves with res
InvokeResolves(res) ==
    /\ value = 0 /\ pendingInvoke.cmd # "none"
    /\ result' = ToString(res)
    /\ loading' = FALSE
    /\ pendingInvoke' = NoInvoke
    /\ UNCHANGED <<value, rowNum, colNum, alignment, error, idRange, orphanInvokes>>
    /\ UNCHANGED textVars

\* lines 112-125: the invoke of the mounted page rejects with err
InvokeRejects(err) ==
    /\ value = 0 /\ pendingInvoke.cmd # "none"
    /\ error' = Some(ErrorPrefix \o err)
    /\ result' = DrawFailed
    /\ loading' = FALSE
    /\ pendingInvoke' = NoInvoke
    /\ UNCHANGED <<value, rowNum, colNum, alignment, idRange, orphanInvokes>>
    /\ UNCHANGED textVars

\* the invoke of a page that was unmounted settles: its setState calls act on
\* an instance that no longer exists
OrphanSettles ==
    /\ orphanInvokes > 0
    /\ orphanInvokes' = orphanInvokes - 1
    /\ UNCHANGED <<value, rowNum, colNum, alignment, result, loading, error,
                   idRange, pendingInvoke>>
    /\ UNCHANGED textVars

\* App: Context.handleChange; TabPanel renders its children only when
\* value = index, so DrawPage is unmounted when another tab is selected and a
\* new DrawPage is mounted when tab 0 is selected again
handleChange(newValue) ==
    /\ newValue # value
    /\ value' = newValue
    /\ IF value = 0
       THEN /\ DrawPageReset
            /\ pendingInvoke' = NoInvoke
            /\ IF pendingInvoke.cmd # "none"
               THEN /\ orphanInvokes < MaxOrphans
                    /\ orphanInvokes' = orphanInvokes + 1
               ELSE UNCHANGED orphanInvokes
       ELSE UNCHANGED <<rowNum, colNum, alignment, result, loading, error,
                        idRange, pendingInvoke, orphanInvokes>>
    /\ UNCHANGED textVars

\* backend calls that have not settled
InFlight == orphanInvokes + (IF pendingInvoke.cmd # "none" THEN 1 ELSE 0)

----------------------------------------------------------------------------
(* The three specifications *)

DrawIdle ==
    /\ value = 0 /\ DrawPageInitial
    /\ pendingInvoke = NoInvoke /\ orphanInvokes = 0

\* Sizing: one instance, props fixed, every trigger and every container box
InitMeasure ==
    /\ \E p \in MeasureProps : \E tm \in Rects : TextMounted(p, TRUE, tm)
    /\ DrawIdle

NextMeasure ==
    \/ MutationObserved
    \/ ContainerResized
    \/ WindowResized
    \/ \E parent \in BOOLEAN : \E pr \in Rects : TimerFires(parent, pr)

SpecMeasure == InitMeasure /\ [][NextMeasure]_vars

\* Lifecycle: props change, the component unmounts and mounts again
InitLifecycle ==
    /\ \E p \in LifecycleProps : TextMounted(p, TRUE, LifecycleBox(p.textContent))
    /\ DrawIdle

NextLifecycle ==
    \/ MutationObserved
    \/ ContainerResized
    \/ WindowResized
    \/ \E pr \in LifecycleRects : TimerFires(TRUE, pr)
    \/ \E t \in stale : \E pr \in LifecycleRects :
          StaleTimerFires(t, TRUE, LifecycleBox(t.c.textContent), pr)
    \/ \E p \in LifecycleProps : Rerender(p, TRUE, LifecycleBox(p.textContent))
    \/ Unmount
    \/ \E p \in LifecycleProps : Mount(p, TRUE, LifecycleBox(p.textContent))

SpecLifecycle == InitLifecycle /\ [][NextLifecycle]_vars

\* DrawPage inside App; the text component is left out
InitDraw ==
    /\ DrawIdle
    /\ TextMounted(MakeProps(15, 300, Frac(3, 5), "none", TRUE, <<"A">>, "width"),
                   TRUE, Rect(1, 1))

NextDraw ==
    \/ \E nv \in SliderPairs : \E activeThumb \in {0, 1} : handleIdRange(nv, activeThumb)
    \/ \E v \in SpinnerValues : handleRowNum(v)
    \/ \E v \in SpinnerValues : handleColNum(v)
    \/ \E clicked \in {"idMode", "planeMode"} : handleAlignment(clicked)
    \/ handleDraw
    \/ \E res \in BackendValues : InvokeResolves(res)
    \/ \E err \in BackendErrors : InvokeRejects(err)
    \/ OrphanSettles
    \/ \E newValue \in 0..2 : handleChange(newValue)

SpecDraw == InitDraw /\ [][NextDraw]_vars

----------------------------------------------------------------------------
(* Properties of ContainerAwareText *)

\* C1: with integer bounds minFontSize <= maxFontSize, fontSize is within
\* [minFontSize, maxFontSize] in every reachable state: at mount and after
\* any sequence of triggers and measurement passes, for every fitMode,
\* scaleRatio and measured box.
C1_FontSizeWithinBounds ==
    props.minFontSize <= fontSize /\ fontSize <= props.maxFontSize

\* a pass whose computed size lies below minFontSize has run and was clamped
C1_Witness ==
    /\ lastPass.completed
    /\ props.minFontSize < props.maxFontSize
    /\ FracLess(CalculatedSize(lastPass.c, textMetrics, lastPass.pr),
                OfInt(props.minFontSize))
    /\ fontSize = props.minFontSize

\* The claim's description of a completed pass, in its own words: an active
\* axis yields maxFontSize * scaleRatio * containerExtent / measuredExtent
\* when both extents are positive; c is the least of the candidates, or
\* maxFontSize when there is none; the result is round(clamp(c)).
C5_Candidates(c, tm, pr) ==
    {Frac(c.maxFontSize * c.scaleRatio.num * pr.width, c.scaleRatio.den * tm.width) :
        x \in {a \in {"w"} : /\ c.fitMode \in {"width", "both"}
                             /\ tm.width > 0 /\ pr.width > 0}}
    \cup
    {Frac(c.maxFontSize * c.scaleRatio.num * pr.height, c.scaleRatio.den * tm.height) :
        x \in {a \in {"h"} : /\ c.fitMode \in {"height", "both"}
                             /\ tm.height > 0 /\ pr.height > 0}}

C5_Combined(c, tm, pr) ==
    LET cands == C5_Candidates(c, tm, pr)
    IN  IF cands = {} THEN OfInt(c.maxFontSize)
        ELSE CHOOSE x \in cands : \A y \in cands : ~FracLess(y, x)

C5_Clamped(c, x) ==
    IF FracLess(x, OfInt(c.minFontSize)) THEN OfInt(c.minFontSize)
    ELSE IF FracLess(OfInt(c.maxFontSize), x) THEN OfInt(c.maxFontSize)
    ELSE x

\* the integer r with x - 1/2 < r <= x + 1/2
C5_Rounded(c, x) ==
    CHOOSE r \in c.minFontSize..c.maxFontSize :
        /\ 2 * (r * x.den - x.num) <= x.den
        /\ 2 * (r * x.den - x.num) > -x.den

C5_Expected(c, tm, pr) == C5_Rounded(c, C5_Clamped(c, C5_Combined(c, tm, pr)))

\* C5: a measurement pass that runs to completion leaves
\* fontSize = round(clamp(c, minFontSize, maxFontSize)) with c the minimum of
\* the candidates of the active axes that yield one, and maxFontSize when
\* none does; the clamp is applied once, to the combined value.
C5_PassResult ==
    lastPass.completed =>
        fontSize = C5_Expected(lastPass.c, textMetrics, lastPass.pr)

\* fitMode both, the two axes yield different candidates and the smaller one
\* lies strictly inside the bounds
C5_Witness ==
    /\ lastPass.completed
    /\ lastPass.c.fitMode = "both"
    /\ \E x, y \in C5_Candidates(lastPass.c, textMetrics, lastPass.pr) : FracLess(x, y)
    /\ props.minFontSize < fontSize /\ fontSize < props.maxFontSize

\* C6: running the pass twice in succession with the same content,
\* configuration, measured text box and container box yields the same
\* fontSize both times: the second pass leaves fontSize as the first set it,
\* whatever fontSize was before.
C6_Idempotent ==
    [][ ( /\ lastPass'.n # lastPass.n
          /\ lastPass.completed /\ lastPass'.completed
          /\ lastPass'.c = lastPass.c /\ lastPass'.pr = lastPass.pr
          /\ textMetrics' = textMetrics )
        => fontSize' = fontSize ]_vars

\* a pass has just repeated the previous one, away from the initial size
C6_Witness ==
    /\ lastPass.repeat
    /\ C5_Candidates(lastPass.c, textMetrics, lastPass.pr) # {}
    /\ props.minFontSize < fontSize /\ fontSize < props.maxFontSize

C7_Blank(txt) == \A i \in 1..Len(txt) : txt[i] \in Whitespace

\* C7: a pass that finds measurement disabled, the flattened content empty or
\* whitespace-only, or no container, returns with fontSize unchanged; a later
\* trigger can still run a full pass (the witness).
C7_AbortKeepsSize ==
    [][ ( /\ lastPass'.n # lastPass.n
          /\ \/ ~lastPass'.c.enabled
             \/ C7_Blank(lastPass'.c.textContent)
             \/ ~lastPass'.parent )
        => fontSize' = fontSize ]_vars

\* a pass returned early, and a later pass ran to completion
C7_Witness ==
    /\ lastPass.afterAbort
    /\ lastPass.completed
    /\ fontSize # props.minFontSize

\* C2: triggers that follow each other within the debounce delay are
\* coalesced: at most one timer is pending, and it will measure with the
\* content and configuration of the latest trigger.
C2_Coalesced ==
    /\ Cardinality(PendingTimers) <= 1
    /\ \A t \in PendingTimers : (mounted /\ props.enabled) => t.c = props

\* C3: when enabled becomes false, the container changes or the component
\* unmounts, every pending debounce timer is cancelled and every observer and
\* listener is detached in the same step.
C3_CleanupCancels ==
    /\ stale = {}
    /\ (~(mounted /\ props.enabled)) =>
          (~timeout /\ ~observer /\ ~resizeObserver /\ ~windowListener)

\* C4: while enabled is false no pass runs and fontSize keeps its value.
C4_DisabledKeepsSize ==
    [][ (mounted /\ mounted' /\ ~props.enabled /\ ~props'.enabled)
        => (fontSize' = fontSize /\ lastPass' = lastPass) ]_vars

----------------------------------------------------------------------------
(* Properties of DrawPage *)

\* C8: after any handleIdRange calls with ordered pairs of the slider range,
\* 1 <= idRange[0], idRange[1] <= 190 and idRange[1] - idRange[0] >= 5, and
\* draw_id is called with 1 <= minId < maxId <= 1000.
C8_IdRangeWithinSlider ==
    /\ 1 <= idRange[1] /\ idRange[2] <= maxId
    /\ idRange[2] - idRange[1] >= minDistance
    /\ 1 <= calculateIdValue(idRange[1])
    /\ calculateIdValue(idRange[1]) < calculateIdValue(idRange[2])
    /\ calculateIdValue(idRange[2]) <= 1000
    /\ pendingInvoke.cmd = "draw_id" =>
          (1 <= pendingInvoke.a /\ pendingInvoke.a < pendingInvoke.b
             /\ pendingInvoke.b <= 1000)

\* C9: at most one backend draw call is in flight at any time; loading is
\* true exactly while the page's call is pending; after a rejection error is
\* set and result is the failure text, after a success error is null.
C9_SingleDrawInFlight ==
    /\ InFlight <= 1
    /\ loading <=> (pendingInvoke.cmd # "none")
    /\ (~loading /\ error # Null) => result = DrawFailed
    /\ (~loading /\ error = Null) =>
          result \in {Waiting} \cup {ToString(res) : res \in BackendValues}

\* C10: rowNum and colNum stay within [1, 100], so draw_plane is only called
\* with a row count and a column count in [1, 100].
C10_PlaneWithinSpinners ==
    /\ rowNum \in 1..100 /\ colNum \in 1..100
    /\ pendingInvoke.cmd = "draw_plane" =>
          (pendingInvoke.a \in 1..100 /\ pendingInvoke.b \in 1..100)

====
